---- MODULE Spec2Model ----
(***************************************************************************)
(* Model of python/tvm/relax/vm.py: VirtualMachine._setup_device, the      *)
(* device / allocator setup performed by VirtualMachine.__init__.          *)
(*                                                                         *)
(* One behaviour is one construction VirtualMachine(exec, dev, memory_cfg):*)
(* Init draws the two arguments, the actions are the consecutive blocks of *)
(* _setup_device, and the behaviour ends in pc = "done" (VirtualMachineInit*)
(* was called) or pc = "failed" (an exception left the constructor).       *)
(***************************************************************************)
EXTENDS Integers, Sequences, FiniteSets, TLC

VARIABLES
    dev,                \* the caller's device argument object, as it is now
    dev_before,         \* its contents when the constructor was called
    memory_cfg_arg,     \* the memory_cfg argument as passed
    memory_cfg,         \* the local name memory_cfg (rebound at 101 / 106)
    devs,               \* the local name devs
    default_alloc_type, \* the local name default_alloc_type (0 = not yet bound)
    init_args,          \* the local list init_args
    vm_init_calls,      \* argument lists VirtualMachineInit was invoked with
    err,                \* the exception that left _setup_device, "" if none
    pc                  \* position in _setup_device

vars == <<dev, dev_before, memory_cfg_arg, memory_cfg, devs,
          default_alloc_type, init_args, vm_init_calls, err, pc>>

----------------------------------------------------------------------------
(* Bounds of the explored inputs *)
MaxDevs == 2        \* longest device list / tuple
MaxDeviceId == 1    \* device ids 0..MaxDeviceId
MaxSession == 1     \* RPC session prefixes 0..MaxSession (0 = local device)

(* Program constants; RPC_SESS_MASK is tvm.rpc.base.RPC_SESS_MASK and kDLCPU
   is tvm.cpu().device_type *)
NAIVE_ALLOCATOR == 1
POOLED_ALLOCATOR == 2
RPC_SESS_MASK == 128
kDLCPU == 1

----------------------------------------------------------------------------
(* Python values that can end up in init_args: ints and strings *)
PyInt(n) == [t |-> "int", n |-> n, s |-> ""]
PyStr(s) == [t |-> "str", n |-> 0, s |-> s]

(* A device type that is not the CPU's (DLPack numbers CUDA right after CPU) *)
kDLCUDA == kDLCPU + 1

(* Objects that can be handed in as a device *)
Device(device_type, device_id) ==
    [kind |-> "Device", device_type |-> device_type, device_id |-> device_id]
(* Objects that are not tvm.runtime.Device instances, by what _setup_device
   does to an element: it reads device_type, applies % RPC_SESS_MASK to it,
   reads device_id and hashes the object.
     NonDevice   has neither attribute and is hashable (an int, None, ...)
     StrType     device_type is the string "cpu", device_id the int 0,
                 hashable: "cpu" % 128 raises TypeError (a string without a
                 conversion specifier)
     FmtType     device_type is the string "%d", device_id the int 0,
                 hashable: "%d" % 128 is string formatting and gives "128"
     TypeOnly    device_type is an int, there is no device_id, hashable
     Unhashable  both attributes are ints, the class defines __eq__ and no
                 __hash__
     Duck        both attributes are ints, hashable, equal to no Device
   The device_type field of the records is the int value of the attribute;
   where the attribute is absent or a string it is written 0 and never read. *)
NonDevice == [kind |-> "Other", device_type |-> 0, device_id |-> 0]
StrType == [kind |-> "StrType", device_type |-> 0, device_id |-> 0]
FmtType == [kind |-> "FmtType", device_type |-> 0, device_id |-> 0]
Duck(device_type, device_id) ==
    [kind |-> "Duck", device_type |-> device_type, device_id |-> device_id]
TypeOnly(device_type) ==
    [kind |-> "TypeOnly", device_type |-> device_type, device_id |-> 0]
Unhashable(device_type, device_id) ==
    [kind |-> "Unhashable", device_type |-> device_type, device_id |-> device_id]

(* isinstance(x, tvm.runtime.Device), and which of the operations succeed on
   an object, each taken by itself: reading device_type (every kind but
   NonDevice), device_type being an int, device_type % RPC_SESS_MASK not
   raising, reading device_id (every kind but NonDevice and TypeOnly), and
   hashing the object (every kind but Unhashable) *)
IsDevice(x) == x.kind = "Device"
HasDeviceType(x) ==
    x.kind \in {"Device", "Duck", "TypeOnly", "Unhashable", "StrType", "FmtType"}
HasIntType(x) == x.kind \in {"Device", "Duck", "TypeOnly", "Unhashable"}
ModSucceeds(x) == HasIntType(x) \/ x.kind = "FmtType"
HasDeviceId(x) == x.kind \in {"Device", "Duck", "Unhashable", "StrType", "FmtType"}
IsHashable(x) ==
    x.kind \in {"Device", "Duck", "StrType", "FmtType", "TypeOnly", "Other"}

CpuDevice == Device(kDLCPU, 0)

DeviceTypes == {b + k * RPC_SESS_MASK : b \in {kDLCPU, kDLCUDA}, k \in 0..MaxSession}
Devices == {Device(t, i) : t \in DeviceTypes, i \in 0..MaxDeviceId}
NonDevices == {NonDevice, StrType, FmtType, TypeOnly(kDLCUDA),
               Duck(kDLCPU, 0), Duck(kDLCUDA, 0),
               Unhashable(kDLCPU, 0), Unhashable(kDLCUDA, 0)}
Objects == Devices \cup NonDevices

SeqsUpTo(S, n) == UNION {[1..k -> S] : k \in 0..n}

DevSpecs ==
    {[container |-> "single", elems |-> <<x>>] : x \in Objects}
    \cup {[container |-> c, elems |-> s] :
            c \in {"list", "tuple"}, s \in SeqsUpTo(Objects, MaxDevs)}

(* memory_cfg values: None, a string, a dict keyed by Devices, anything else.
   The values of a dict are strategy names (as the docstring has it) or an
   allocator constant. *)
StrategyNames == {"naive", "pooled"}
MemCfgKeys == {Device(kDLCPU, 0), Device(kDLCUDA, 0)}
DictValues == {PyStr(n) : n \in StrategyNames} \cup {PyInt(NAIVE_ALLOCATOR)}
EmptyDict == [k \in {} |-> PyStr("pooled")]
Dicts == UNION {[K -> DictValues] : K \in SUBSET MemCfgKeys}
CfgNone == [kind |-> "none", str |-> "", map |-> EmptyDict]
CfgStr(s) == [kind |-> "str", str |-> s, map |-> EmptyDict]
CfgDict(m) == [kind |-> "dict", str |-> "", map |-> m]
CfgOther == [kind |-> "other", str |-> "", map |-> EmptyDict]
MemCfgs ==
    {CfgNone, CfgOther}
    \cup {CfgStr(s) : s \in StrategyNames \cup {"bogus"}}
    \cup {CfgDict(m) : m \in Dicts}

(* Exceptions *)
TypeErrorDev == "TypeError: dev is expected to be Device or List[Device]"
AttrErrorDeviceType == "AttributeError: device_type"
AttrErrorDeviceId == "AttributeError: device_id"
TypeErrorMod == "TypeError: device_type % RPC_SESS_MASK"
TypeErrorUnhashable == "TypeError: unhashable type"
AttrErrorAppend == "AttributeError: 'tuple' object has no attribute 'append'"
AssertionErrorCfg == "AssertionError"
TypeErrorCfg == "TypeError: memory_cfg is expected be string or dictionary"

----------------------------------------------------------------------------
(* device_type % RPC_SESS_MASK for an int device_type *)
NormalizeRaw(t) == t
NormalizeDeviceType(t) == t % RPC_SESS_MASK

(* device.device_type % RPC_SESS_MASK as Python evaluates it, where it does
   not raise: the remainder for an int, the formatted string for "%d" *)
ModMask(x) ==
    IF x.kind = "FmtType" THEN PyStr(ToString(RPC_SESS_MASK))
    ELSE PyInt(NormalizeDeviceType(x.device_type))

(* any(c.device_type % RPC_SESS_MASK == tvm.cpu().device_type for c in devs):
   evaluated left to right, stops at the first CPU-class element, raises on
   an element without a device_type attribute or whose device_type % raises;
   a string result is unequal to the int.  The result is "true", "false" or
   the exception. *)
RECURSIVE AnyCpuFrom(_, _)
AnyCpuFrom(s, i) ==
    IF i > Len(s) THEN "false"
    ELSE IF ~HasDeviceType(s[i]) THEN AttrErrorDeviceType
    ELSE IF ~ModSucceeds(s[i]) THEN TypeErrorMod
    ELSE IF ModMask(s[i]) = PyInt(CpuDevice.device_type) THEN "true"
    ELSE AnyCpuFrom(s, i + 1)

AnyCpuFirstOnly(s) ==
    IF Len(s) = 0 THEN "false"
    ELSE IF ~HasDeviceType(s[1]) THEN AttrErrorDeviceType
    ELSE IF ~ModSucceeds(s[1]) THEN TypeErrorMod
    ELSE IF ModMask(s[1]) = PyInt(CpuDevice.device_type) THEN "true"
    ELSE "false"
AnyCpu(s) == AnyCpuFrom(s, 1)

(* devs.append(tvm.cpu()) *)
WithCpuFirst(s) == <<CpuDevice>> \o s
WithCpu(s) == Append(s, CpuDevice)

(* lines 86-93 *)
NormalizeDev(d) ==
    IF d.container \in {"list", "tuple"}
    THEN [err |-> "", devs |-> d.elems]
    ELSE IF ~IsDevice(d.elems[1])
         THEN [err |-> TypeErrorDev, devs |-> d.elems]
         ELSE [err |-> "", devs |-> <<d.elems[1]>>]

(* lines 95-97; container tells what kind of object devs is *)
EnsureCpu(container, s) ==
    LET found == AnyCpu(s) IN
    IF found \notin {"true", "false"} THEN [err |-> found, devs |-> s]
    ELSE IF found = "true" THEN [err |-> "", devs |-> s]
    ELSE IF container = "tuple" THEN [err |-> AttrErrorAppend, devs |-> s]
    ELSE [err |-> "", devs |-> WithCpu(s)]

(* lines 99-106: the default allocator type *)
DefaultAlwaysPooled(cfg) == POOLED_ALLOCATOR
DefaultAllocType(cfg) ==
    IF cfg.kind = "str" /\ cfg.str = "naive" THEN NAIVE_ALLOCATOR ELSE POOLED_ALLOCATOR

(* lines 99-111 *)
ResolveCfg(cfg) ==
    IF cfg.kind = "none"
    THEN [err |-> "", default |-> DefaultAllocType(cfg), cfg |-> CfgDict(EmptyDict)]
    ELSE IF cfg.kind = "str"
    THEN IF cfg.str \notin {"naive", "pooled"}
         THEN [err |-> AssertionErrorCfg, default |-> POOLED_ALLOCATOR, cfg |-> cfg]
         ELSE [err |-> "", default |-> DefaultAllocType(cfg), cfg |-> CfgDict(EmptyDict)]
    ELSE IF cfg.kind # "dict"
    THEN [err |-> TypeErrorCfg, default |-> POOLED_ALLOCATOR, cfg |-> cfg]
    ELSE [err |-> "", default |-> DefaultAllocType(cfg), cfg |-> cfg]

(* line 116, for a hashable device: the dict value goes in as it is *)
AllocType(device, cfg, default) ==
    IF device \in DOMAIN cfg.map THEN cfg.map[device] ELSE PyInt(default)

(* lines 114-117: one iteration of the loop *)
BindArgsSwapped(args, device, cfg, default) ==
    args \o <<PyInt(device.device_id),
              ModMask(device),
              AllocType(device, cfg, default)>>
BindArgs(args, device, cfg, default) ==
    args \o <<ModMask(device),
              PyInt(device.device_id),
              AllocType(device, cfg, default)>>

(* lines 114-117 with their exceptions: line 114 reads device_type, applies %
   and appends the result; line 115 reads device_id and appends it; line 116
   hashes the device for the dict lookup (also when the dict is empty); line
   117 appends the allocator type. *)
BindStep(args, device, cfg, default) ==
    IF ~HasDeviceType(device) THEN [err |-> AttrErrorDeviceType, args |-> args]
    ELSE IF ~ModSucceeds(device) THEN [err |-> TypeErrorMod, args |-> args]
    ELSE IF ~HasDeviceId(device)
    THEN [err |-> AttrErrorDeviceId,
          args |-> Append(args, ModMask(device))]
    ELSE IF ~IsHashable(device)
    THEN [err |-> TypeErrorUnhashable,
          args |-> args \o <<ModMask(device), PyInt(device.device_id)>>]
    ELSE [err |-> "", args |-> BindArgs(args, device, cfg, default)]

(* lines 112-117: the whole loop *)
RECURSIVE BuildInitArgs(_, _, _, _, _)
BuildInitArgs(s, i, cfg, default, args) ==
    IF i > Len(s) THEN [err |-> "", args |-> args]
    ELSE LET b == BindStep(args, s[i], cfg, default) IN
         IF b.err # "" THEN b
         ELSE BuildInitArgs(s, i + 1, cfg, default, b.args)

(* _setup_device as a function of its arguments: the exception raised and the
   argument lists VirtualMachineInit is invoked with *)
SetupOutcome(d, cfg) ==
    LET n == NormalizeDev(d) IN
    IF n.err # "" THEN [err |-> n.err, calls |-> <<>>] ELSE
    LET e == EnsureCpu(d.container, n.devs) IN
    IF e.err # "" THEN [err |-> e.err, calls |-> <<>>] ELSE
    LET r == ResolveCfg(cfg) IN
    IF r.err # "" THEN [err |-> r.err, calls |-> <<>>] ELSE
    LET b == BuildInitArgs(e.devs, 1, r.cfg, r.default, <<>>) IN
    IF b.err # "" THEN [err |-> b.err, calls |-> <<>>]
    ELSE [err |-> "", calls |-> <<b.args>>]

----------------------------------------------------------------------------
Init ==
    /\ dev \in DevSpecs
    /\ dev_before = dev
    /\ memory_cfg_arg \in MemCfgs
    /\ memory_cfg = memory_cfg_arg
    /\ devs = <<>>
    /\ default_alloc_type = 0
    /\ init_args = <<>>
    /\ vm_init_calls = <<>>
    /\ err = ""
    /\ pc = "normalize"

Raise(e) == err' = e /\ pc' = "failed"

(* lines 86-93 *)
Normalize ==
    /\ pc = "normalize"
    /\ LET n == NormalizeDev(dev) IN
       IF n.err # ""
       THEN Raise(n.err) /\ UNCHANGED devs
       ELSE devs' = n.devs /\ pc' = "ensure_cpu" /\ UNCHANGED err
    /\ UNCHANGED <<dev, dev_before, memory_cfg_arg, memory_cfg,
                   default_alloc_type, init_args, vm_init_calls>>

(* lines 95-97; when dev is a list, devs is that very list *)
EnsureCpuStep ==
    /\ pc = "ensure_cpu"
    /\ LET e == EnsureCpu(dev.container, devs) IN
       IF e.err # ""
       THEN Raise(e.err) /\ UNCHANGED <<devs, dev>>
       ELSE /\ devs' = e.devs
            /\ dev' = IF dev.container = "list"
                      THEN [dev EXCEPT !.elems = e.devs] ELSE dev
            /\ pc' = "resolve_cfg"
            /\ UNCHANGED err
    /\ UNCHANGED <<dev_before, memory_cfg_arg, memory_cfg,
                   default_alloc_type, init_args, vm_init_calls>>

(* lines 99-112 *)
ResolveCfgStep ==
    /\ pc = "resolve_cfg"
    /\ LET r == ResolveCfg(memory_cfg) IN
       /\ default_alloc_type' = r.default
       /\ IF r.err # ""
          THEN Raise(r.err) /\ UNCHANGED memory_cfg
          ELSE memory_cfg' = r.cfg /\ pc' = "loop" /\ UNCHANGED err
    /\ init_args' = <<>>
    /\ UNCHANGED <<dev, dev_before, memory_cfg_arg, devs, vm_init_calls>>

(* lines 113-117: one iteration, for the next device of devs *)
BindDevice ==
    /\ pc = "loop"
    /\ Len(init_args) < 3 * Len(devs)
    /\ LET device == devs[Len(init_args) \div 3 + 1]
           b == BindStep(init_args, device, memory_cfg, default_alloc_type) IN
       /\ init_args' = b.args
       /\ IF b.err # "" THEN Raise(b.err) ELSE UNCHANGED <<err, pc>>
    /\ UNCHANGED <<dev, dev_before, memory_cfg_arg, memory_cfg, devs,
                   default_alloc_type, vm_init_calls>>

(* line 118 *)
VirtualMachineInit ==
    /\ pc = "loop"
    /\ Len(init_args) = 3 * Len(devs)
    /\ vm_init_calls' = Append(vm_init_calls, init_args)
    /\ pc' = "done"
    /\ UNCHANGED <<dev, dev_before, memory_cfg_arg, memory_cfg, devs,
                   default_alloc_type, init_args, err>>

Next ==
    \/ Normalize
    \/ EnsureCpuStep
    \/ ResolveCfgStep
    \/ BindDevice
    \/ VirtualMachineInit

Spec == Init /\ [][Next]_vars

----------------------------------------------------------------------------
(* Vocabulary of the properties *)
Finished == pc \in {"done", "failed"}
Args == vm_init_calls[1]
NumBindings == Len(Args) \div 3
CallerElems == dev_before.elems
(* an element whose device_type % RPC_SESS_MASK equals the CPU type *)
CpuClass(x) == HasIntType(x) /\ x.device_type % RPC_SESS_MASK = kDLCPU
(* the value Python gives device_type % RPC_SESS_MASK for an element of a
   successful setup *)
TypeSlotOf(x) ==
    IF HasIntType(x) THEN PyInt(x.device_type % RPC_SESS_MASK) ELSE PyStr("128")
(* the allocator entry the configuration asks for *)
AllocSlotOf(x) ==
    IF memory_cfg_arg.kind = "dict" /\ x \in DOMAIN memory_cfg_arg.map
    THEN memory_cfg_arg.map[x]
    ELSE PyInt(IF memory_cfg_arg = CfgStr("naive")
               THEN NAIVE_ALLOCATOR ELSE POOLED_ALLOCATOR)
CallerCpuPositions == {i \in 1..Len(CallerElems) : CpuClass(CallerElems[i])}
CpuBindingSlots == {i \in 1..NumBindings : Args[3 * i - 2] = PyInt(kDLCPU)}
BindingSet == {<<Args[3 * i - 2], Args[3 * i - 1], Args[3 * i]>> : i \in 1..NumBindings}
Max(a, b) == IF a >= b THEN a ELSE b
StrategyOf(name) == IF name = "naive" THEN NAIVE_ALLOCATOR ELSE POOLED_ALLOCATOR
InvalidDeviceHandle ==
    {TypeErrorDev, AttrErrorDeviceType, AttrErrorDeviceId, TypeErrorMod,
     TypeErrorUnhashable}
AsList(d) == [container |-> "list", elems |-> d.elems]

(* The step-by-step run and the function SetupOutcome agree. *)
RunMatchesOutcome ==
    Finished => /\ [err |-> err, calls |-> vm_init_calls]
                       = SetupOutcome(dev_before, memory_cfg_arg)
                /\ pc = "done" => vm_init_calls = <<init_args>>

(* C1: when no device of the caller's spec is CPU-class, a successful setup
   binds the caller's devices in their order, followed by exactly one CPU
   binding placed last: caller's device count + 1 bindings.  The type slot
   of an element is what device_type % RPC_SESS_MASK gives for it. *)
C1_CpuAppendedLast ==
    (pc = "done" /\ CallerCpuPositions = {}) =>
        /\ Len(vm_init_calls) = 1
        /\ Len(Args) = 3 * (Len(CallerElems) + 1)
        /\ \A i \in 1..Len(CallerElems) :
              /\ Args[3 * i - 2] = TypeSlotOf(CallerElems[i])
              /\ Args[3 * i - 2] # PyInt(kDLCPU)
              /\ Args[3 * i - 1] = PyInt(CallerElems[i].device_id)
        /\ Args[3 * Len(CallerElems) + 1] = PyInt(kDLCPU)
        /\ Args[3 * Len(CallerElems) + 2] = PyInt(0)

C1_Witness ==
    /\ pc = "done"
    /\ dev_before.container = "list"
    /\ Len(CallerElems) = 2
    /\ CallerCpuPositions = {}
    /\ Len(Args) = 9

(* C2 as stated: after every successful setup the set of bindings holds
   exactly one CPU-class binding, whatever the caller's spec. *)
C2_ExactlyOneCpuBinding ==
    pc = "done" =>
        Cardinality({b \in BindingSet : b[1] = PyInt(kDLCPU)}) = 1

(* C2 amended: after every successful setup there is at least one CPU-class
   binding: exactly one when the caller's spec holds at most one CPU-class
   device, and otherwise one per CPU-class device of the caller's spec. *)
C2_CpuBindingCount ==
    pc = "done" =>
        /\ CpuBindingSlots # {}
        /\ Cardinality(CpuBindingSlots) = Max(1, Cardinality(CallerCpuPositions))

C2_Witness ==
    /\ pc = "done"
    /\ Cardinality(CallerCpuPositions) = 2
    /\ Cardinality(CpuBindingSlots) = 2

(* C3: VirtualMachineInit receives exactly one (type, id, strategy) triple
   per device of the possibly CPU-extended sequence, the triple of slot i
   describes the i-th device in caller order (its device_type % RPC_SESS_MASK,
   its device_id, and the allocator entry the configuration holds for it),
   and so no slot is bound twice. *)
C3_PositionalSlots ==
    pc = "done" =>
        /\ Len(vm_init_calls) = 1
        /\ Len(Args) = 3 * Len(devs)
        /\ Len(devs) >= Len(CallerElems)
        /\ \A i \in 1..Len(CallerElems) : devs[i] = CallerElems[i]
        /\ \A i \in 1..Len(devs) :
              /\ Args[3 * i - 2] = TypeSlotOf(devs[i])
              /\ Args[3 * i - 1] = PyInt(devs[i].device_id)
              /\ Args[3 * i] = AllocSlotOf(devs[i])
        /\ \A i \in (Len(CallerElems) + 1)..Len(devs) : devs[i] = CpuDevice

C3_Witness ==
    /\ pc = "done"
    /\ Len(CallerElems) = 2
    /\ CallerElems[1] # CallerElems[2]
    /\ CallerElems[1].device_id # CallerElems[1].device_type % RPC_SESS_MASK
    /\ Len(Args) = 3 * Len(devs)

(* C4: with a global memory configuration every binding, the appended CPU
   binding included, gets the same strategy: pooled for None and "pooled",
   naive for "naive"; [gpu0] with "naive" gives gpu0 at slot 0 and cpu at
   slot 1, both naive. *)
C4_GlobalStrategy ==
    (pc = "done" /\ memory_cfg_arg.kind \in {"none", "str"}) =>
        /\ \A i \in 1..NumBindings :
              Args[3 * i] = PyInt(IF memory_cfg_arg = CfgStr("naive")
                                  THEN NAIVE_ALLOCATOR ELSE POOLED_ALLOCATOR)
        /\ (dev_before = [container |-> "list", elems |-> <<Device(kDLCUDA, 0)>>]
            /\ memory_cfg_arg = CfgStr("naive"))
           => Args = <<PyInt(kDLCUDA), PyInt(0), PyInt(NAIVE_ALLOCATOR),
                       PyInt(kDLCPU), PyInt(0), PyInt(NAIVE_ALLOCATOR)>>

C4_Witness ==
    /\ pc = "done"
    /\ dev_before = [container |-> "list", elems |-> <<Device(kDLCUDA, 0)>>]
    /\ memory_cfg_arg = CfgStr("naive")
    /\ NumBindings = 2

(* C5: with a per-device mapping, a device present in the mapping is bound
   with the allocator value its strategy name denotes (naive = 1, pooled =
   2) and a device absent from it with the pooled value, so the strategy of
   every binding is one of the two enumerated values. *)
C5_PerDeviceStrategy ==
    (/\ pc = "done"
     /\ memory_cfg_arg.kind = "dict"
     /\ \A k \in DOMAIN memory_cfg_arg.map :
           memory_cfg_arg.map[k] \in {PyStr(n) : n \in StrategyNames}) =>
        \A i \in 1..NumBindings :
            /\ Args[3 * i] = IF devs[i] \in DOMAIN memory_cfg_arg.map
                             THEN PyInt(StrategyOf(memory_cfg_arg.map[devs[i]].s))
                             ELSE PyInt(POOLED_ALLOCATOR)
            /\ Args[3 * i] \in {PyInt(NAIVE_ALLOCATOR), PyInt(POOLED_ALLOCATOR)}

(* C6: a memory configuration that is neither None, "naive", "pooled" nor a
   mapping is rejected before any binding: a bad string with the invalid
   strategy error, another value with the invalid configuration error, and
   VirtualMachineInit is never invoked (device spec made of Devices). *)
C6_BadConfigRejected ==
    (/\ Finished
     /\ \A i \in 1..Len(CallerElems) : IsDevice(CallerElems[i])
     /\ \/ memory_cfg_arg.kind = "other"
        \/ memory_cfg_arg.kind = "str" /\ memory_cfg_arg.str \notin StrategyNames) =>
        /\ pc = "failed"
        /\ vm_init_calls = <<>>
        /\ err = IF memory_cfg_arg.kind = "str" THEN AssertionErrorCfg ELSE TypeErrorCfg

(* C7: a device spec holding an object that is not a Device makes setup fail
   with the invalid device handle error, VirtualMachineInit never invoked. *)
C7_NonDeviceRejected ==
    (Finished /\ \E i \in 1..Len(CallerElems) : ~IsDevice(CallerElems[i])) =>
        /\ pc = "failed"
        /\ err \in InvalidDeviceHandle
        /\ vm_init_calls = <<>>

(* C8: a failed setup leaves nothing observable: VirtualMachineInit was not
   invoked and the caller's device list holds the elements it held before. *)
C8_FailedSetupAtomic ==
    pc = "failed" => (vm_init_calls = <<>> /\ dev = dev_before)

(* C9: every device type written into a binding is device_type %
   RPC_SESS_MASK (for an int device_type the remainder, a number below the
   mask; for the string "%d" the string Python's % gives), and a
   remote-session device whose normalized type is the CPU type counts as the
   CPU: no CPU binding is appended for a spec containing it. *)
C9_SessionMaskNormalization ==
    pc = "done" =>
        /\ \A i \in 1..NumBindings :
              /\ Args[3 * i - 2] = TypeSlotOf(devs[i])
              /\ HasIntType(devs[i]) =>
                    /\ Args[3 * i - 2].t = "int"
                    /\ Args[3 * i - 2].n \in 0..(RPC_SESS_MASK - 1)
                    /\ Args[3 * i - 2].n = devs[i].device_type % RPC_SESS_MASK
        /\ (\E i \in 1..Len(CallerElems) :
               /\ HasIntType(CallerElems[i])
               /\ CallerElems[i].device_type >= RPC_SESS_MASK
               /\ CallerElems[i].device_type % RPC_SESS_MASK = kDLCPU)
           => /\ NumBindings = Len(CallerElems)
              /\ devs = CallerElems

C9_Witness ==
    /\ pc = "done"
    /\ \E i \in 1..Len(CallerElems) : CallerElems[i].device_type = kDLCPU + RPC_SESS_MASK
    /\ \A i \in 1..Len(CallerElems) : CallerElems[i].device_type # kDLCPU
    /\ NumBindings = Len(CallerElems)

(* C10: the outcome depends only on the ordered devices, not on the
   container: a device alone, a list and a tuple holding the same devices
   give the same outcome, also when a CPU binding must be appended. *)
C10_ContainerIndependent ==
    (Finished /\ \A i \in 1..Len(CallerElems) : IsDevice(CallerElems[i])) =>
        [err |-> err, calls |-> vm_init_calls]
            = SetupOutcome(AsList(dev_before), memory_cfg_arg)

====
